---- MODULE Spec2Model ----
(***************************************************************************)
(* The tile cache of the infinite canvas: TileManager (tile map, loads,    *)
(* eviction, LOD synthesis), PersistenceManager (the key -> blob store)    *)
(* and the paint / dirty-tile path of CanvasManager.                       *)
(*                                                                         *)
(* JavaScript runs one task at a time: an action is one synchronous run of *)
(* a handler, or one continuation of an async function from the await that *)
(* resumed it to the next await (or to its end).                           *)
(***************************************************************************)
EXTENDS Integers, Sequences, FiniteSets, TLC

(***************************************************************************)
(* Program constants.                                                      *)
(***************************************************************************)
TILE_SIZE == 256
TIMEOUT == 2000
buffer == 1
brushSize == 50

(***************************************************************************)
(* Bounds of the model.                                                    *)
(***************************************************************************)
\* performance.now() is explored up to MaxTicks clock advances
MaxTicks == 2
\* at most MaxFaults requests to IndexedDB / Blob fail in one behaviour
MaxFaults == 1
\* a store request is answered while at most MaxOvertake older requests wait
MaxOvertake == 0
\* the clock advances while at most MaxSlowLoads loads wait for the store
MaxSlowLoads == 1
\* at most MaxSaves saveTile calls are in flight together
MaxSaves == 1
\* the tile indices looked at are those of -MaxTile .. MaxTile
MaxTile == 6
\* the levels tried are 0 .. MaxLevel
MaxLevel == 2
\* the zooms tried are the fractions zn / zd with zn, zd in 1 .. MaxZoomTerm
MaxZoomTerm == 12

\* texture: null
Null == << >>

\* pixel contents of a texture or of a stored blob
Data(kind, quads) == [kind |-> kind, quads |-> quads]

\* loadTile(key) -> null
NoBlob == Data("none", << >>)

\* new Uint8Array(TILE_SIZE * TILE_SIZE * 4): all zeros, also a fresh texture
Blank == Data("blank", << >>)

\* a quadrant no child was drawn into
Empty == Data("empty", << >>)

(***************************************************************************)
(* Inputs.                                                                 *)
(***************************************************************************)
\* Layer (types/shared): id and visible are what the tile cache reads
Layer(id, visible) == [id |-> id, visible |-> visible]

\* the layer lists handed to update and getVisibleTiles
LayerLists ==
    { << Layer("layer-1", TRUE) >>,
      << Layer("layer-1", FALSE) >>,
      << Layer("layer-0", FALSE) >> }

\* ViewportState; zoom is the rational zn / zd
Viewport(x, y, zn, zd, w, h) ==
    [x |-> x, y |-> y, zn |-> zn, zd |-> zd, width |-> w, height |-> h]

Viewports == { Viewport(128, 128, 1, 1, 100, 100) }

\* the arguments (layerId, tx, ty, level) given to forceLoadTile
ForceArgs == { << "layer-1", 0, -1, 1 >> }

\* the keys of the tiles whose storage requests may fail
FaultyKeys == { << "layer-1", 1, 1 >> }

\* the clock advances between two tasks
Deltas == { 2, TIMEOUT - 1 }

(***************************************************************************)
(* types/shared: getTileKey.  The key string "layerId:tx:ty" is modelled   *)
(* by the sequence of its ':'-separated fields; the fourth argument that   *)
(* TileManager passes is not a parameter of the function and is dropped.   *)
(***************************************************************************)
getTileKey(layerId, tx, ty, level) == << layerId, tx, ty >>

(***************************************************************************)
(* State.                                                                  *)
(***************************************************************************)
VARIABLES
    tiles,       \* TileManager.tiles: key -> TileState
    textures,    \* the GPU textures not destroyed so far: id -> its pixels
    loads,       \* the loadTileData calls suspended at an await
    loadStarts,  \* history: key -> number of loadTileData calls started
    tileLevel,   \* history: key -> the level its resident record was requested at
    store,       \* the IndexedDB object store "tiles": key -> blob
    saves,       \* the TileManager.saveTile calls suspended at an await
    dirtyTiles,  \* CanvasManager.dirtyTiles
    now,         \* performance.now()
    ticks,       \* number of clock advances so far
    faults,      \* number of failed requests so far
    unsaved,     \* history: keys painted and not durably written since
    canvasManager, \* CanvasManager: layers, activeLayerId, viewport, strokePoints,
                 \* and the commitStroke calls suspended at an await
    ret          \* the last call and what it returned / the last promise resolved to

vars == << tiles, textures, loads, loadStarts, tileLevel, store, saves,
           dirtyTiles, now, ticks, faults, unsaved, canvasManager, ret >>

\* TileState
TileState(texture, status, lastUsedTimestamp) ==
    [texture |-> texture, status |-> status, lastUsedTimestamp |-> lastUsedTimestamp]

Resident(key) == key \in DOMAIN tiles

Put(f, k, v) == [x \in DOMAIN f \cup {k} |-> IF x = k THEN v ELSE f[x]]

Remove(f, ks) == [x \in DOMAIN f \ ks |-> f[x]]

Count(f, k) == IF k \in DOMAIN f THEN f[k] ELSE 0

NoRet == [op |-> "none"]

\* a rejected promise
Throw == Data("throw", << >>)

StatusOf(T, key) == IF key \in DOMAIN T THEN T[key].status ELSE "absent"

(***************************************************************************)
(* TileManager.update: level and load rectangle.                           *)
(***************************************************************************)
RECURSIVE Pow2(_)
Pow2(k) == IF k <= 0 THEN 1 ELSE 2 * Pow2(k - 1)

\* floor(log2(d / n)) for d >= n > 0
RECURSIVE Log2Floor(_, _)
Log2Floor(n, d) == IF 2 * n <= d THEN 1 + Log2Floor(2 * n, d) ELSE 0

\* the intervals closed at the wrong end: a zoom of exactly 2^-k gets level k - 1
LevelOfHalfOpen(v) ==
    IF v.zd <= v.zn THEN 0
    ELSE LET k == Log2Floor(v.zn, v.zd)
         IN  IF Pow2(k) * v.zn = v.zd THEN k - 1 ELSE k

\* Math.max(0, Math.floor(Math.log2(1 / viewport.zoom)))
LevelOf(v) == IF v.zd < v.zn THEN 0 ELSE Log2Floor(v.zn, v.zd)

\* TileIndex dividing by TILE_SIZE whatever the level
TileIndexLevelZero(c, extent, sign, v, tileSizeWorld) ==
    (2 * v.zn * c + sign * extent * v.zd) \div (2 * v.zn * TILE_SIZE)

\* TileIndex rounding towards zero (Math.trunc) instead of down
TileIndexTruncated(c, extent, sign, v, tileSizeWorld) ==
    LET n == 2 * v.zn * c + sign * extent * v.zd
        d == 2 * v.zn * tileSizeWorld
    IN  IF n >= 0 THEN n \div d ELSE -((-n) \div d)

\* Math.floor((c -/+ extent / 2 / zoom) / tileSizeWorld), in integers
TileIndex(c, extent, sign, v, tileSizeWorld) ==
    (2 * v.zn * c + sign * extent * v.zd) \div (2 * v.zn * tileSizeWorld)

\* CanvasManager.commitStroke:
\* Math.max(0, Math.floor(Math.log2(1 / this.viewport.zoom)))
currentLevel(v) == IF v.zd < v.zn THEN 0 ELSE Log2Floor(v.zn, v.zd)

LoadRect(v) ==
    LET tileSizeWorld == TILE_SIZE * Pow2(LevelOf(v))
        minTx == TileIndex(v.x, v.width, -1, v, tileSizeWorld)
        maxTx == TileIndex(v.x, v.width, 1, v, tileSizeWorld)
        minTy == TileIndex(v.y, v.height, -1, v, tileSizeWorld)
        maxTy == TileIndex(v.y, v.height, 1, v, tileSizeWorld)
    IN  [minTx |-> minTx - buffer, maxTx |-> maxTx + buffer,
         minTy |-> minTy - buffer, maxTy |-> maxTy + buffer]

\* store.get(key) of a transaction opened now: IndexedDB serialises the
\* transactions on one object store in the order they were created, so the
\* request reads the store as it is when the request is made
StoreGet(key) == IF key \in DOMAIN store THEN store[key] ELSE NoBlob

\* a loadTileData call suspended at its first await; blob is what the store
\* request it has made will read, at (history) the time of the call
NewLoad(layerId, tx, ty, level, gen, forced) ==
    [layerId |-> layerId, tx |-> tx, ty |-> ty, level |-> level, gen |-> gen,
     forced |-> forced, at |-> now, pc |-> "loadTile",
     blob |-> StoreGet(getTileKey(layerId, tx, ty, level)), child |-> 0,
     quads |-> << >>]

KeyOf(t) == getTileKey(t.layerId, t.tx, t.ty, t.level)

\* the texture loadTileData creates for load t; slot 0..3 are the temporary
\* child textures of generateLODTile, slot 4 the tile's own texture
TexId(t, slot) == << KeyOf(t), t.gen, slot >>

(***************************************************************************)
(* TileManager.prune                                                       *)
(***************************************************************************)
\* the comparison of line 462 turned round: the recently used records expire
ExpiredInverted(tile, t) == t - tile.lastUsedTimestamp < TIMEOUT

\* the comparison of line 462 two milliseconds early
ExpiredEarly(tile, t) == t - tile.lastUsedTimestamp >= TIMEOUT - 1

\* the comparison of line 462 two milliseconds late
ExpiredLate(tile, t) == t - tile.lastUsedTimestamp > TIMEOUT + 2

Expired(tile, t) == t - tile.lastUsedTimestamp > TIMEOUT

\* the scan passing over the records in status error
VictimsSparingError(T, t) ==
    { k \in DOMAIN T : Expired(T[k], t) /\ T[k].status # "error" }

Victims(T, t) == { k \in DOMAIN T : Expired(T[k], t) }

\* texture.destroy()
Destroy(X, ids) == Remove(X, ids)

VictimTextures(T, t) ==
    { T[k].texture : k \in { v \in Victims(T, t) : T[v].texture # Null } }

prune(T, t) == Remove(T, Victims(T, t))

(***************************************************************************)
(* TileManager.update: the three nested loops (layers, tx, ty), one        *)
(* iteration per call of Visit, in the order the code runs them.           *)
(***************************************************************************)
\* the (tx, ty) pairs of the load rectangle in loop order: tx outer, ty inner
RectSeq(rect) ==
    LET h == rect.maxTy - rect.minTy + 1
        w == rect.maxTx - rect.minTx + 1
    IN  [i \in 1 .. w * h |->
            << rect.minTx + ((i - 1) \div h), rect.minTy + ((i - 1) % h) >>]

\* VisitAll with the test of line 85 (if (tile)) looking at the status as well:
\* a key whose record is still loading is requested again
VisitAllReloading(u, layer, cells, level, t) ==
    LET keyAt(i) == getTileKey(layer.id, cells[i][1], cells[i][2], level)
        keys == { keyAt(i) : i \in DOMAIN cells }
        made == IF layer.visible
                THEN { k \in keys : StatusOf(u.tiles, k) \in { "absent", "loading" } }
                ELSE {}
        news == SelectSeq(cells,
                    LAMBDA c : getTileKey(layer.id, c[1], c[2], level) \in made)
    IN  [tiles |-> [k \in DOMAIN u.tiles \cup made |->
                      IF k \in made THEN TileState(Null, "loading", t)
                      ELSE IF k \in keys
                      THEN [u.tiles[k] EXCEPT !.lastUsedTimestamp = t]
                      ELSE u.tiles[k]],
         loads |-> u.loads \o
                   [i \in DOMAIN news |->
                      NewLoad(layer.id, news[i][1], news[i][2], level,
                              Count(u.loadStarts,
                                    getTileKey(layer.id, news[i][1], news[i][2], level)) + 1,
                              FALSE)],
         loadStarts |-> [k \in DOMAIN u.loadStarts \cup made |->
                           IF k \in made THEN Count(u.loadStarts, k) + 1
                           ELSE u.loadStarts[k]]]

\* VisitAll without the test of layer.visible (line 86): the absent keys of a
\* hidden layer get a record and a load as well
VisitAllIgnoringVisible(u, layer, cells, level, t) ==
    LET keyAt(i) == getTileKey(layer.id, cells[i][1], cells[i][2], level)
        keys == { keyAt(i) : i \in DOMAIN cells }
        made == keys \ DOMAIN u.tiles
        news == SelectSeq(cells,
                    LAMBDA c : getTileKey(layer.id, c[1], c[2], level) \in made)
    IN  [tiles |-> [k \in DOMAIN u.tiles \cup made |->
                      IF k \in made THEN TileState(Null, "loading", t)
                      ELSE IF k \in keys
                      THEN [u.tiles[k] EXCEPT !.lastUsedTimestamp = t]
                      ELSE u.tiles[k]],
         loads |-> u.loads \o
                   [i \in DOMAIN news |->
                      NewLoad(layer.id, news[i][1], news[i][2], level,
                              Count(u.loadStarts,
                                    getTileKey(layer.id, news[i][1], news[i][2], level)) + 1,
                              FALSE)],
         loadStarts |-> [k \in DOMAIN u.loadStarts \cup made |->
                           IF k \in made THEN Count(u.loadStarts, k) + 1
                           ELSE u.loadStarts[k]]]

\* lines 82-95 for all cells of one layer, on the state u so far.  The keys
\* of the cells of one layer are pairwise distinct, so every iteration sees
\* the map as u has it: a resident key is touched, an absent key of a visible
\* layer gets a record and a load, in loop order
VisitAll(u, layer, cells, level, t) ==
    LET keyAt(i) == getTileKey(layer.id, cells[i][1], cells[i][2], level)
        keys == { keyAt(i) : i \in DOMAIN cells }
        made == IF layer.visible THEN keys \ DOMAIN u.tiles ELSE {}
        news == SelectSeq(cells,
                    LAMBDA c : getTileKey(layer.id, c[1], c[2], level) \in made)
    IN  [tiles |-> [k \in DOMAIN u.tiles \cup made |->
                      IF k \in made THEN TileState(Null, "loading", t)
                      ELSE IF k \in keys
                      THEN [u.tiles[k] EXCEPT !.lastUsedTimestamp = t]
                      ELSE u.tiles[k]],
         loads |-> u.loads \o
                   [i \in DOMAIN news |->
                      NewLoad(layer.id, news[i][1], news[i][2], level,
                              Count(u.loadStarts,
                                    getTileKey(layer.id, news[i][1], news[i][2], level)) + 1,
                              FALSE)],
         loadStarts |-> [k \in DOMAIN u.loadStarts \cup made |->
                           IF k \in made THEN Count(u.loadStarts, k) + 1
                           ELSE u.loadStarts[k]]]

RECURSIVE UpdateLayers(_, _, _, _, _)
UpdateLayers(u, layers, rect, level, t) ==
    IF layers = << >> THEN u
    ELSE UpdateLayers(VisitAll(u, Head(layers), RectSeq(rect), level, t),
                      Tail(layers), rect, level, t)

update(viewport, layers) ==
    LET level == LevelOf(viewport)
        rect == LoadRect(viewport)
        u == UpdateLayers([tiles |-> tiles, loads |-> loads, loadStarts |-> loadStarts],
                          layers, rect, level, now)
        made == DOMAIN u.tiles \ DOMAIN tiles
        kept == DOMAIN prune(u.tiles, now)
    IN  /\ tiles' = prune(u.tiles, now)
        /\ textures' = Destroy(textures, VictimTextures(u.tiles, now))
        /\ loads' = u.loads
        /\ loadStarts' = u.loadStarts
        /\ tileLevel' = [k \in kept |-> IF k \in made THEN level ELSE tileLevel[k]]
        /\ ret' = [op |-> "update"]
        /\ UNCHANGED << store, saves, dirtyTiles, now, ticks, faults, unsaved,
                        canvasManager >>

(***************************************************************************)
(* TileManager.forceLoadTile                                               *)
(***************************************************************************)
Resolved(key, T) == [op |-> "forceLoadTile", key |-> key, status |-> StatusOf(T, key)]

forceLoadTile(layerId, tx, ty, level) ==
    LET key == getTileKey(layerId, tx, ty, level) IN
    IF key \notin DOMAIN tiles
    THEN /\ tiles' = Put(tiles, key, TileState(Null, "loading", now))
         /\ loads' = Append(loads,
                NewLoad(layerId, tx, ty, level, Count(loadStarts, key) + 1, TRUE))
         /\ loadStarts' = Put(loadStarts, key, Count(loadStarts, key) + 1)
         /\ tileLevel' = Put(tileLevel, key, level)
         /\ ret' = NoRet
         /\ UNCHANGED << textures, store, saves, dirtyTiles, now, ticks, faults, unsaved,
                         canvasManager >>
    ELSE /\ ret' = Resolved(key, tiles)
         /\ UNCHANGED << tiles, textures, loads, loadStarts, tileLevel, store,
                         saves, dirtyTiles, now, ticks, faults, unsaved,
                         canvasManager >>

(***************************************************************************)
(* PersistenceManager.loadTile: what the promise settles to, read being    *)
(* what store.get reads.  fault says how the request goes: "none",         *)
(* "request" (request.onerror: resolve(null)) or "throw" (initDB rejects,  *)
(* or db.transaction throws).                                              *)
(***************************************************************************)
loadTile(read, fault) ==
    CASE fault = "throw" -> Throw
      [] fault = "request" -> NoBlob
      [] OTHER -> read

FaultKinds(key) ==
    { "none" } \cup
    (IF faults < MaxFaults /\ key \in FaultyKeys THEN { "request", "throw" } ELSE {})

\* blob.arrayBuffer(), mapAsync: they resolve or reject
RejectKinds(key) ==
    { "none" } \cup (IF faults < MaxFaults /\ key \in FaultyKeys THEN { "throw" } ELSE {})

Faulted(fault) == faults' = IF fault = "none" THEN faults ELSE faults + 1

(***************************************************************************)
(* TileManager.writeDebugPattern / clearTexture                            *)
(***************************************************************************)
writeDebugPattern(tx, ty, level) == Data("pattern", << >>)

clearTexture == Blank

createTexture(X, id) == Put(X, id, Blank)

writeTexture(X, id, data) == [X EXCEPT ![id] = data]

(***************************************************************************)
(* TileManager.loadTileData: the three places a finished load writes its   *)
(* record (lines 130-134, 140-144, 152-156) and the catch block.           *)
(***************************************************************************)
\* SetReady without the test of lines 130, 140, 152 (if (tile)): a load that
\* finds its key absent inserts a Ready record
SetReadyInsert(T, key, texture) ==
    IF key \in DOMAIN T
    THEN [T EXCEPT ![key].texture = texture, ![key].status = "ready"]
    ELSE Put(T, key, TileState(texture, "ready", now))

SetReady(T, key, texture) ==
    IF key \in DOMAIN T
    THEN [T EXCEPT ![key].texture = texture, ![key].status = "ready"]
    ELSE T

SetError(T, key) ==
    IF key \in DOMAIN T THEN [T EXCEPT ![key].status = "error"] ELSE T

\* Answerable with the pyramid build waiting for a child whose record is
\* Loading instead of reading the store
AnswerableWaiting(t) ==
    /\ \E i \in 1 .. Len(loads) : i <= MaxOvertake + 1 /\ loads[i] = t
    /\ ~(/\ t.pc = "childLoadTile"
         /\ StatusOf(tiles, getTileKey(t.layerId, t.tx * 2 + (t.child % 2),
                                       t.ty * 2 + (t.child \div 2), t.level - 1))
               = "loading")

\* the store answers the requests of the loads roughly in the order they were
\* made: a request is answered while at most MaxOvertake older ones wait
Answerable(t) == \E i \in 1 .. Len(loads) : i <= MaxOvertake + 1 /\ loads[i] = t

\* the queue without load t
Others(t) == SelectSeq(loads, LAMBDA x : x # t)

\* the promise forceLoadTile returned resolves when loadTileData returns
Returned(t, T) == IF t.forced THEN Resolved(KeyOf(t), T) ELSE NoRet

Catch(t) ==
    /\ tiles' = SetError(tiles, KeyOf(t))
    /\ loads' = Others(t)
    /\ ret' = Returned(t, tiles')

(***************************************************************************)
(* TileManager.generateLODTile                                             *)
(***************************************************************************)
ChildKey(t, i) ==
    getTileKey(t.layerId, t.tx * 2 + (i % 2), t.ty * 2 + (i \div 2), t.level - 1)

\* "1. Try Memory first"
Cached(T, key) ==
    /\ key \in DOMAIN T
    /\ T[key].status = "ready"
    /\ T[key].texture # Null

\* the loop from child i on, up to the first child that is not in memory:
\* the children passed are drawn from their resident textures
RECURSIVE Advance(_, _, _)
Advance(t, i, quads) ==
    IF i < 4 /\ Cached(tiles, ChildKey(t, i))
    THEN Advance(t, i + 1, Append(quads, tiles[ChildKey(t, i)].texture))
    ELSE [child |-> i, quads |-> quads]

\* what queue.submit draws into the target: each quadrant from its source
\* texture as it is when the commands run; a destroyed source invalidates the
\* whole submission and the target keeps its initial contents
Composite(X, quads) ==
    IF \E i \in 1..4 : quads[i] # Null /\ quads[i] \notin DOMAIN X
    THEN Blank
    ELSE Data("lod", [i \in 1..4 |->
                        IF quads[i] = Null THEN Empty ELSE X[quads[i]]])

\* lines 394-408, then lines 140-144 of loadTileData
FinishLOD(t, X, quads) ==
    LET hasContent == \E i \in 1..4 : quads[i] # Null
        target == TexId(t, 4)
    IN  /\ textures' = writeTexture(X, target,
                          IF hasContent THEN Composite(X, quads) ELSE clearTexture)
        /\ tiles' = SetReady(tiles, KeyOf(t), target)
        /\ loads' = Others(t)
        /\ ret' = Returned(t, tiles')

\* run the loop from child i until it awaits a store read or ends
ContinueLOD(t, X, i, quads) ==
    LET a == Advance(t, i, quads) IN
    IF a.child = 4
    THEN FinishLOD(t, X, a.quads)
    ELSE /\ textures' = X
         /\ loads' = Append(Others(t),
                [t EXCEPT !.pc = "childLoadTile", !.child = a.child,
                            !.quads = a.quads,
                            !.blob = StoreGet(ChildKey(t, a.child))])
         /\ ret' = NoRet
         /\ UNCHANGED tiles

(***************************************************************************)
(* loadTileData resumes from "await this.persistenceManager.loadTile(key)" *)
(***************************************************************************)
LoadTileAnswered(t, fault) ==
    /\ Answerable(t)
    /\ t.pc = "loadTile"
    /\ Faulted(fault)
    /\ LET blob == loadTile(t.blob, fault)
           texture == TexId(t, 4)
           X == createTexture(textures, texture)
       IN  IF blob = Throw
           THEN Catch(t) /\ UNCHANGED textures
           ELSE IF blob # NoBlob
           THEN /\ textures' = X
                /\ loads' = Append(Others(t),
                       [t EXCEPT !.pc = "arrayBuffer", !.blob = blob])
                /\ ret' = NoRet
                /\ UNCHANGED tiles
           ELSE IF t.level > 0
           THEN ContinueLOD(t, X, 0, << >>)
           ELSE /\ textures' = writeTexture(X, texture,
                                  IF t.layerId = "layer-0"
                                  THEN writeDebugPattern(t.tx, t.ty, 0)
                                  ELSE clearTexture)
                /\ tiles' = SetReady(tiles, KeyOf(t), texture)
                /\ loads' = Others(t)
                /\ ret' = Returned(t, tiles')
    /\ UNCHANGED << loadStarts, tileLevel, store, saves, dirtyTiles, now, ticks, unsaved,
                    canvasManager >>

(***************************************************************************)
(* loadTileData resumes from "await blob.arrayBuffer()" (line 120)         *)
(***************************************************************************)
ArrayBufferAnswered(t, fault) ==
    /\ Answerable(t)
    /\ t.pc = "arrayBuffer"
    /\ Faulted(fault)
    /\ IF fault = "throw"
       THEN Catch(t) /\ UNCHANGED textures
       ELSE /\ textures' = writeTexture(textures, TexId(t, 4), t.blob)
            /\ tiles' = SetReady(tiles, KeyOf(t), TexId(t, 4))
            /\ loads' = Others(t)
            /\ ret' = Returned(t, tiles')
    /\ UNCHANGED << loadStarts, tileLevel, store, saves, dirtyTiles, now, ticks, unsaved,
                    canvasManager >>

(***************************************************************************)
(* generateLODTile resumes from "await loadTile(childKey)" (line 331)      *)
(***************************************************************************)
\* ChildLoadTileAnswered with the readback the comment of lines 396-404
\* recommends: a tile the build has finished is saved under its key
ChildLoadTileAnsweredSaving(t, fault) ==
    /\ Answerable(t)
    /\ t.pc = "childLoadTile"
    /\ Faulted(fault)
    /\ LET blob == loadTile(t.blob, fault) IN
       IF blob = Throw
       THEN Catch(t) /\ UNCHANGED textures
       ELSE IF blob # NoBlob
       THEN /\ textures' = createTexture(textures, TexId(t, t.child))
            /\ loads' = Append(Others(t),
                   [t EXCEPT !.pc = "childArrayBuffer", !.blob = blob])
            /\ ret' = NoRet
            /\ UNCHANGED tiles
       ELSE ContinueLOD(t, textures, t.child + 1, Append(t.quads, Null))
    /\ store' = IF t \notin { loads'[i] : i \in 1 .. Len(loads') }
                   /\ StatusOf(tiles', KeyOf(t)) = "ready"
                THEN Put(store, KeyOf(t), textures'[TexId(t, 4)])
                ELSE store
    /\ UNCHANGED << loadStarts, tileLevel, saves, dirtyTiles, now, ticks, unsaved,
                    canvasManager >>

ChildLoadTileAnswered(t, fault) ==
    /\ Answerable(t)
    /\ t.pc = "childLoadTile"
    /\ Faulted(fault)
    /\ LET blob == loadTile(t.blob, fault) IN
       IF blob = Throw
       THEN Catch(t) /\ UNCHANGED textures
       ELSE IF blob # NoBlob
       THEN /\ textures' = createTexture(textures, TexId(t, t.child))
            /\ loads' = Append(Others(t),
                   [t EXCEPT !.pc = "childArrayBuffer", !.blob = blob])
            /\ ret' = NoRet
            /\ UNCHANGED tiles
       ELSE ContinueLOD(t, textures, t.child + 1, Append(t.quads, Null))
    /\ UNCHANGED << loadStarts, tileLevel, store, saves, dirtyTiles, now, ticks, unsaved,
                    canvasManager >>

(***************************************************************************)
(* generateLODTile resumes from "await blob.arrayBuffer()" (line 339)      *)
(***************************************************************************)
ChildArrayBufferAnswered(t, fault) ==
    /\ Answerable(t)
    /\ t.pc = "childArrayBuffer"
    /\ Faulted(fault)
    /\ IF fault = "throw"
       THEN Catch(t) /\ UNCHANGED textures
       ELSE ContinueLOD(t, writeTexture(textures, TexId(t, t.child), t.blob),
                        t.child + 1, Append(t.quads, TexId(t, t.child)))
    /\ UNCHANGED << loadStarts, tileLevel, store, saves, dirtyTiles, now, ticks, unsaved,
                    canvasManager >>

(***************************************************************************)
(* The read operations of TileManager.                                     *)
(***************************************************************************)
\* getTile returning the texture field whatever the status is
getTileAnyStatus(layerId, tx, ty) ==
    LET key == getTileKey(layerId, tx, ty, 0) IN
    IF key \in DOMAIN tiles THEN tiles[key].texture ELSE Null

\* getTile(layerId, tx, ty): GPUTexture | null (line 503)
getTile(layerId, tx, ty) ==
    LET key == getTileKey(layerId, tx, ty, 0) IN
    IF key \in DOMAIN tiles /\ tiles[key].status = "ready" /\ tiles[key].texture # Null
    THEN tiles[key].texture
    ELSE Null

Undefined == TileState(Null, "undefined", 0)

\* getTileByKey(key): the TileState or undefined
getTileByKey(key) == IF key \in DOMAIN tiles THEN tiles[key] ELSE Undefined

\* key.split(':') and the parseInt calls of getVisibleTiles
ParseKey(key) ==
    IF Len(key) = 4
    THEN [layerId |-> key[1], level |-> key[2], tx |-> key[3], ty |-> key[4]]
    ELSE [layerId |-> key[1], level |-> 0, tx |-> key[2], ty |-> key[3]]

visibleLayerIds(layers) == { layers[i].id : i \in { j \in DOMAIN layers : layers[j].visible } }

Listed(key, layers) ==
    /\ tiles[key].status = "ready"
    /\ tiles[key].texture # Null
    /\ Len(key) \in { 3, 4 }
    /\ ParseKey(key).layerId \in visibleLayerIds(layers)

getVisibleTiles(layers) ==
    { [key |-> key, texture |-> tiles[key].texture, tx |-> ParseKey(key).tx,
       ty |-> ParseKey(key).ty, layerId |-> ParseKey(key).layerId,
       level |-> ParseKey(key).level] :
        key \in { k \in DOMAIN tiles : Listed(k, layers) } }

Reads == << tiles, textures, loads, loadStarts, tileLevel, store, saves,
            dirtyTiles, now, ticks, faults, unsaved, canvasManager >>

\* getTile with the proactive load of line 513 switched on
GetTileLoading(layerId, tx, ty) ==
    LET key == getTileKey(layerId, tx, ty, 0) IN
    /\ ret' = [op |-> "getTile", key |-> key, value |-> getTile(layerId, tx, ty)]
    /\ loads' = IF key \in DOMAIN tiles THEN loads
                ELSE Append(loads, NewLoad(layerId, tx, ty, 0, Count(loadStarts, key) + 1, FALSE))
    /\ loadStarts' = IF key \in DOMAIN tiles THEN loadStarts
                     ELSE Put(loadStarts, key, Count(loadStarts, key) + 1)
    /\ UNCHANGED << tiles, textures, tileLevel, store, saves, dirtyTiles, now,
                    ticks, faults, unsaved, canvasManager >>

GetTile(layerId, tx, ty) ==
    /\ ret' = [op |-> "getTile", key |-> getTileKey(layerId, tx, ty, 0),
               value |-> getTile(layerId, tx, ty)]
    /\ UNCHANGED Reads

GetTileByKey(key) ==
    /\ ret' = [op |-> "getTileByKey", key |-> key, value |-> getTileByKey(key)]
    /\ UNCHANGED Reads

GetVisibleTiles(layers) ==
    /\ ret' = [op |-> "getVisibleTiles", layers |-> layers,
               value |-> getVisibleTiles(layers)]
    /\ UNCHANGED Reads

(***************************************************************************)
(* TileManager.saveTile                                                    *)
(***************************************************************************)
\* up to "await buffer.mapAsync": the copy of the texture is submitted, so the
\* blob will hold the pixels the texture has now
saveTile(S, layerId, tx, ty, level) ==
    LET key == getTileKey(layerId, tx, ty, level) IN
    IF key \notin DOMAIN tiles \/ tiles[key].texture = Null
       \/ tiles[key].status # "ready"
    THEN S
    ELSE S \cup { [key |-> key, data |-> textures[tiles[key].texture],
                   pc |-> "mapAsync", ok |-> TRUE, fresh |-> TRUE] }

\* resumes from mapAsync and calls persistenceManager.saveTile: store.put is
\* requested; a put that is going to succeed is serialised here
MapAsyncAnswered(s, fault) ==
    /\ s \in saves
    /\ s.pc = "mapAsync"
    /\ fault \in { "none", "throw", "put" }
    /\ Faulted(fault)
    /\ IF fault = "throw"
       THEN saves' = saves \ {s} /\ UNCHANGED store
       ELSE /\ saves' = (saves \ {s}) \cup { [s EXCEPT !.pc = "put", !.ok = (fault = "none")] }
            /\ store' = IF fault = "none" THEN Put(store, s.key, s.data) ELSE store
    /\ ret' = NoRet
    /\ UNCHANGED << tiles, textures, loads, loadStarts, tileLevel, dirtyTiles,
                    now, ticks, unsaved, canvasManager >>

\* PutAnswered with a failed write dropping the record it could not save
PutAnsweredDropping(s) ==
    /\ s \in saves
    /\ s.pc = "put"
    /\ saves' = saves \ {s}
    /\ unsaved' = IF s.ok /\ s.fresh THEN unsaved \ {s.key} ELSE unsaved
    /\ ret' = [op |-> "saveTile", key |-> s.key, value |-> s.ok]
    /\ tiles' = IF s.ok THEN tiles ELSE Remove(tiles, {s.key})
    /\ tileLevel' = IF s.ok THEN tileLevel ELSE Remove(tileLevel, {s.key})
    /\ UNCHANGED << textures, loads, loadStarts, store, dirtyTiles, now, ticks, faults,
                    canvasManager >>

\* PutAnswered with the block of lines 210-236 switched on: after a write the
\* ancestors of the tile are deleted from the store and from the tile map
PutAnsweredInvalidating(s) ==
    LET parents == { getTileKey(s.key[1], s.key[2] \div Pow2(n), s.key[3] \div Pow2(n), n) :
                       n \in 1 .. 5 }
    IN  /\ s \in saves
        /\ s.pc = "put"
        /\ saves' = saves \ {s}
        /\ unsaved' = IF s.ok /\ s.fresh THEN unsaved \ {s.key} ELSE unsaved
        /\ ret' = [op |-> "saveTile", key |-> s.key, value |-> s.ok]
        /\ store' = IF s.ok THEN Remove(store, parents) ELSE store
        /\ tiles' = IF s.ok THEN Remove(tiles, parents) ELSE tiles
        /\ tileLevel' = IF s.ok THEN Remove(tileLevel, parents) ELSE tileLevel
        /\ UNCHANGED << textures, loads, loadStarts, dirtyTiles, now, ticks, faults,
                        canvasManager >>

\* request.onsuccess / request.onerror of PersistenceManager.saveTile
PutAnswered(s) ==
    /\ s \in saves
    /\ s.pc = "put"
    /\ saves' = saves \ {s}
    /\ unsaved' = IF s.ok /\ s.fresh THEN unsaved \ {s.key} ELSE unsaved
    /\ ret' = [op |-> "saveTile", key |-> s.key, value |-> s.ok]
    /\ UNCHANGED << tiles, textures, loads, loadStarts, tileLevel, store,
                    dirtyTiles, now, ticks, faults, canvasManager >>

(***************************************************************************)
(* CanvasManager: drawStroke (tracks dirty tiles) and saveDirtyTiles       *)
(***************************************************************************)
activeLayerId == "layer-1"

Painted == Data("painted", << >>)

\* the tiles in the brush's box around world point p that getTile returns
StrokeTiles(p) ==
    { c \in ((p[1] - brushSize) \div TILE_SIZE .. (p[1] + brushSize) \div TILE_SIZE)
            \X ((p[2] - brushSize) \div TILE_SIZE .. (p[2] + brushSize) \div TILE_SIZE) :
        getTile(activeLayerId, c[1], c[2]) # Null }

StrokeKeys(p) == { << activeLayerId, c[1], c[2] >> : c \in StrokeTiles(p) }

drawStroke(p) ==
    LET hit == { getTile(activeLayerId, c[1], c[2]) : c \in StrokeTiles(p) } IN
    /\ StrokeTiles(p) # {}
    /\ dirtyTiles' = dirtyTiles \cup StrokeKeys(p)
    /\ textures' = [i \in DOMAIN textures |->
                      IF i \in hit THEN Painted ELSE textures[i]]
    /\ unsaved' = unsaved \cup StrokeKeys(p)
    /\ saves' = { IF s.key \in StrokeKeys(p) THEN [s EXCEPT !.fresh = FALSE] ELSE s :
                    s \in saves }
    /\ ret' = NoRet
    /\ UNCHANGED << tiles, loads, loadStarts, tileLevel, store, now, ticks, faults,
                    canvasManager >>

RECURSIVE SaveAll(_, _)
SaveAll(S, keys) ==
    IF keys = {} THEN S
    ELSE LET key == CHOOSE k \in keys : TRUE
         IN  SaveAll(saveTile(S, key[1], key[2], key[3], 0), keys \ {key})

saveDirtyTiles ==
    /\ dirtyTiles # {}
    /\ Cardinality(SaveAll(saves, dirtyTiles)) <= MaxSaves
    /\ saves' = SaveAll(saves, dirtyTiles)
    /\ dirtyTiles' = {}
    /\ ret' = NoRet
    /\ UNCHANGED << tiles, textures, loads, loadStarts, tileLevel, store, now,
                    ticks, faults, unsaved, canvasManager >>

(***************************************************************************)
(* CanvasManager: the fields a new instance has.  drawn, stroke and        *)
(* pointer are history: the points pushed since the last pointerdown, the  *)
(* number of strokes started, and whether the button is held.              *)
(* localStorage is the item "tiledraw_layers" saveLayers writes.           *)
(***************************************************************************)
CanvasManager ==
    [layers |-> << Layer("layer-0", TRUE), Layer("layer-1", TRUE), Layer("layer-2", TRUE) >>,
     activeLayerId |-> "layer-1",
     viewport |-> Viewport(0, 0, 1, 1, 0, 0),
     lastPointerPos |-> << 0, 0 >>,
     strokePoints |-> << >>,
     commits |-> << >>,
     localStorage |-> Null,
     drawn |-> << >>,
     stroke |-> 0,
     pointer |-> "up"]

(***************************************************************************)
(* CanvasManager: pointer input.  The pointer events carry the canvas      *)
(* coordinates getCanvasCoordinates gives; those of the model share one y  *)
(* and lie a multiple of stepSize apart, so Math.hypot is |x2 - x1|.       *)
(***************************************************************************)
stepSize == 5

\* at most MaxStrokes strokes are started in one behaviour
MaxStrokes == 2
\* a pointermove is handled while the stroke has fewer than MaxPoints points
MaxPoints == 3

PointerCoords == { << 50, 50 >>, << 60, 50 >> }

\* screenToWorld: viewport.x + (x - width / 2) / zoom, in integers (the
\* widths of the model are even and the zooms are 1 / zd)
screenToWorld(x, y) ==
    LET v == canvasManager.viewport
    IN  << v.x + ((2 * x - v.width) * v.zd) \div (2 * v.zn),
           v.y + ((2 * y - v.height) * v.zd) \div (2 * v.zn) >>

\* drawStroke (second revision): the world point pushed on strokePoints;
\* stroke (history) is the stroke the point was drawn in
StrokePoint(x, y) ==
    [x |-> screenToWorld(x, y)[1], y |-> screenToWorld(x, y)[2],
     stroke |-> canvasManager.stroke]

\* interpolateStroke: the points drawStroke is called with, in order
interpolateStroke(x1, y1, x2, y2) ==
    LET dist == IF x2 >= x1 THEN x2 - x1 ELSE x1 - x2
        steps == (dist + stepSize - 1) \div stepSize
    IN  [i \in 1 .. steps |->
            StrokePoint(x1 + ((x2 - x1) * (i - 1)) \div steps,
                        y1 + ((y2 - y1) * (i - 1)) \div steps)]
        \o << StrokePoint(x2, y2) >>

\* what commitStroke changes, as it is before the call runs
Before ==
    [tiles |-> tiles, loads |-> loads, loadStarts |-> loadStarts,
     tileLevel |-> tileLevel, textures |-> textures, saves |-> saves,
     unsaved |-> unsaved]

\* 'pointerdown' with the left button, not panning: the stroke buffer is reset
PointerDown(coords) ==
    /\ canvasManager.pointer = "up"
    /\ canvasManager.stroke < MaxStrokes
    /\ canvasManager' = [canvasManager EXCEPT !.lastPointerPos = coords,
                                              !.strokePoints = << >>,
                                              !.drawn = << >>,
                                              !.stroke = @ + 1,
                                              !.pointer = "down"]
    /\ ret' = [op |-> "pointerdown"]
    /\ UNCHANGED << tiles, textures, loads, loadStarts, tileLevel, store, saves,
                    dirtyTiles, now, ticks, faults, unsaved >>

\* 'pointermove' with the button held: interpolateStroke from lastPointerPos
PointerMove(coords) ==
    LET last == canvasManager.lastPointerPos
        points == interpolateStroke(last[1], last[2], coords[1], coords[2])
    IN  /\ canvasManager.pointer = "down"
        /\ Len(canvasManager.drawn) < MaxPoints
        /\ canvasManager' = [canvasManager EXCEPT !.lastPointerPos = coords,
                                                  !.strokePoints = @ \o points,
                                                  !.drawn = @ \o points]
        /\ ret' = [op |-> "pointermove"]
        /\ UNCHANGED << tiles, textures, loads, loadStarts, tileLevel, store, saves,
                        dirtyTiles, now, ticks, faults, unsaved >>

(***************************************************************************)
(* CanvasManager.commitStroke (second revision)                            *)
(***************************************************************************)
Least(S) == CHOOSE m \in S : \A n \in S : m <= n

Greatest(S) == CHOOSE m \in S : \A n \in S : m >= n

\* lines 1577-1603: the box of the stroke widened by the brush size, the
\* level of the viewport's zoom and the tile range of the box at that level;
\* the call is about to enter the loop over the tiles (tx outer, ty inner)
NewCommit ==
    LET P == canvasManager.strokePoints
        xs == { P[i].x : i \in DOMAIN P }
        ys == { P[i].y : i \in DOMAIN P }
        level == currentLevel(canvasManager.viewport)
        tileSizeWorld == TILE_SIZE * Pow2(level)
        range == [minTx |-> (Least(xs) - brushSize) \div tileSizeWorld,
                  maxTx |-> (Greatest(xs) + brushSize) \div tileSizeWorld,
                  minTy |-> (Least(ys) - brushSize) \div tileSizeWorld,
                  maxTy |-> (Greatest(ys) + brushSize) \div tileSizeWorld]
    IN  [stroke |-> canvasManager.stroke, level |-> level,
         cells |-> RectSeq(range), i |-> 1, pc |-> "loop", key |-> << >>, gen |-> 0]

\* the key commitStroke looks the tile up with (line 1614):
\* `${activeLayerId}:${currentLevel}:${tx}:${ty}`
CommitKey(c) ==
    << canvasManager.activeLayerId, c.level, c.cells[c.i][1], c.cells[c.i][2] >>

\* the loop of lines 1611-1687 from cell c.i on, up to the await it suspends
\* at or to its end.  phase is where the body of cell c.i is entered: "loop"
\* at its top, "loaded" after await forceLoadTile, "saved" after await
\* saveTile.  An await of a promise that is already resolved continues in a
\* microtask, before any other event is handled: it does not end the step.
RECURSIVE commitLoop(_, _, _)
commitLoop(u, c, phase) ==
    IF c.i > Len(c.cells)
    THEN [state |-> u, call |-> [c EXCEPT !.pc = "done"]]
    ELSE
    LET layerId == canvasManager.activeLayerId
        tx == c.cells[c.i][1]
        ty == c.cells[c.i][2]
        key == getTileKey(layerId, tx, ty, c.level)
        gen == Count(u.loadStarts, key) + 1
        tile == IF CommitKey(c) \in DOMAIN u.tiles THEN u.tiles[CommitKey(c)]
                ELSE Undefined
        next == [c EXCEPT !.i = c.i + 1, !.pc = "loop"]
        S == saveTile(u.saves, layerId, tx, ty, 0)
    IN  IF phase = "saved"
        THEN commitLoop(u, next, "loop")
        ELSE IF phase = "loop" /\ tile = Undefined /\ key \notin DOMAIN u.tiles
        THEN \* forceLoadTile starts the load and commitStroke waits for it
             [state |-> [u EXCEPT
                  !.tiles = Put(u.tiles, key, TileState(Null, "loading", now)),
                  !.loads = Append(u.loads,
                                   NewLoad(layerId, tx, ty, c.level, gen, TRUE)),
                  !.loadStarts = Put(u.loadStarts, key, gen),
                  !.tileLevel = Put(u.tileLevel, key, c.level)],
              call |-> [c EXCEPT !.pc = "forceLoadTile", !.key = key, !.gen = gen]]
        ELSE IF tile.texture # Null /\ tile.status = "ready"
        THEN \* the render pass draws this.strokePoints into the tile, then
             \* saveTile(activeLayerId, tx, ty, 0)
             LET drawn == [u EXCEPT
                     !.textures = [u.textures EXCEPT ![tile.texture] =
                                       Data("painted", canvasManager.strokePoints)],
                     !.unsaved = u.unsaved \cup { CommitKey(c) },
                     !.saves = S]
             IN  IF S # u.saves
                 THEN [state |-> drawn,
                       call |-> [c EXCEPT !.pc = "saveTile", !.key = key]]
                 ELSE commitLoop(drawn, next, "loop")
        ELSE commitLoop(u, next, "loop")

\* the state after a run r of commitStroke that started from the fields cm:
\* a call that has ended has done its cleanup (line 1690), a suspended call
\* is kept
Committed(r, cm, others, from) ==
    /\ tiles' = r.state.tiles
    /\ loads' = r.state.loads
    /\ loadStarts' = r.state.loadStarts
    /\ tileLevel' = r.state.tileLevel
    /\ textures' = r.state.textures
    /\ saves' = r.state.saves
    /\ unsaved' = r.state.unsaved
    /\ canvasManager' =
          [cm EXCEPT !.commits = IF r.call.pc = "done" THEN others
                                 ELSE Append(others, r.call),
                     !.strokePoints = IF r.call.pc = "done" THEN << >> ELSE @]
    /\ ret' = [op |-> "commitStroke", from |-> from, pc |-> r.call.pc,
               stroke |-> r.call.stroke, layerId |-> canvasManager.activeLayerId,
               level |-> r.call.level, cells |-> r.call.cells,
               points |-> canvasManager.strokePoints, drawn |-> canvasManager.drawn]
    /\ UNCHANGED << store, dirtyTiles, now, ticks, faults >>

\* 'pointerup', not panning: commitStroke() is called and not awaited; it
\* returns at once when the stroke buffer is empty
PointerUp ==
    /\ canvasManager.pointer = "down"
    /\ LET cm == [canvasManager EXCEPT !.pointer = "up"]
           c == NewCommit
       IN  IF canvasManager.strokePoints = << >>
           THEN Committed([state |-> Before,
                           call |-> [stroke |-> canvasManager.stroke, level |-> 0,
                                     cells |-> << >>, i |-> 1, pc |-> "done",
                                     key |-> << >>, gen |-> 0]],
                          cm, canvasManager.commits, "pointerup")
           ELSE Committed(commitLoop(Before, c, "loop"), cm,
                          canvasManager.commits, "pointerup")

\* the promise the call c waits for has settled
Settled(c) ==
    \/ /\ c.pc = "forceLoadTile"
       /\ \A i \in 1 .. Len(loads) : ~(KeyOf(loads[i]) = c.key /\ loads[i].gen = c.gen)
    \/ /\ c.pc = "saveTile"
       /\ \A w \in saves : w.key # c.key

\* a commitStroke call can resume: the continuation runs in a microtask,
\* before the next event, timer or store answer is handled
Resumable == \E i \in 1 .. Len(canvasManager.commits) : Settled(canvasManager.commits[i])

\* commitStroke resumes from await forceLoadTile (line 1623) or from await
\* saveTile (line 1684); a saveTile that rejected ends the call without the
\* cleanup of line 1690
CommitResumed ==
    \E i \in 1 .. Len(canvasManager.commits) :
        LET c == canvasManager.commits[i]
            others == SelectSeq(canvasManager.commits, LAMBDA x : x # c)
        IN  /\ Settled(c)
            /\ IF c.pc = "saveTile"
                  /\ ret # [op |-> "saveTile", key |-> c.key, value |-> TRUE]
               THEN /\ canvasManager' = [canvasManager EXCEPT !.commits = others]
                    /\ ret' = [op |-> "commitStroke", from |-> "await",
                               pc |-> "throw", stroke |-> c.stroke,
                               layerId |-> canvasManager.activeLayerId,
                               level |-> c.level, cells |-> c.cells,
                               points |-> canvasManager.strokePoints,
                               drawn |-> canvasManager.drawn]
                    /\ UNCHANGED << tiles, textures, loads, loadStarts, tileLevel,
                                    store, saves, dirtyTiles, now, ticks, faults,
                                    unsaved >>
               ELSE Committed(commitLoop(Before, c,
                                  IF c.pc = "saveTile" THEN "saved" ELSE "loaded"),
                              canvasManager, others, "await")

(***************************************************************************)
(* CanvasManager: the layer list                                           *)
(***************************************************************************)
\* the layer list holds at most MaxLayers layers
MaxLayers == 5

\* Date.now() when performance.now() was 0
timeOrigin == 1000

\* `layer-${Date.now()}`
NewLayerId == "layer-" \o ToString(timeOrigin + now)

LayerIds(L) == { L[i].id : i \in DOMAIN L }

\* an id no layer has
NoLayerId == "layer-x"

LayerOp(op, cm) ==
    /\ canvasManager' = cm
    /\ ret' = [op |-> op]
    /\ UNCHANGED << tiles, textures, loads, loadStarts, tileLevel, store, saves,
                    dirtyTiles, now, ticks, faults, unsaved >>

addLayer ==
    LET id == NewLayerId
        pushed == Append(canvasManager.layers, Layer(id, TRUE))
    IN  /\ Len(canvasManager.layers) < MaxLayers
        /\ LayerOp("addLayer", [canvasManager EXCEPT !.layers = pushed,
                                                     !.activeLayerId = id,
                                                     !.localStorage = pushed])

deleteLayers(layerIds) ==
    LET kept == SelectSeq(canvasManager.layers, LAMBDA l : l.id \notin layerIds)
    IN  IF kept = << >>
        THEN LayerOp("deleteLayers", canvasManager)
        ELSE LayerOp("deleteLayers",
                     [canvasManager EXCEPT
                         !.layers = kept,
                         !.activeLayerId = IF @ \in LayerIds(kept) THEN @
                                           ELSE kept[Len(kept)].id,
                         !.localStorage = kept])

\* layers.find: the first layer with the id
Find(L, layerId) ==
    IF layerId \in LayerIds(L)
    THEN CHOOSE i \in DOMAIN L :
            L[i].id = layerId /\ \A j \in 1 .. i - 1 : L[j].id # layerId
    ELSE 0

toggleLayer(layerId) ==
    LET i == Find(canvasManager.layers, layerId)
        toggled == [canvasManager.layers EXCEPT ![i].visible = ~@]
    IN  IF i = 0
        THEN LayerOp("toggleLayer", canvasManager)
        ELSE LayerOp("toggleLayer", [canvasManager EXCEPT !.layers = toggled,
                                                          !.localStorage = toggled])

setActiveLayer(layerId) ==
    IF Find(canvasManager.layers, layerId) = 0
    THEN LayerOp("setActiveLayer", canvasManager)
    ELSE LayerOp("setActiveLayer", [canvasManager EXCEPT !.activeLayerId = layerId])

(***************************************************************************)
(* The clock.                                                              *)
(***************************************************************************)
Tick(d) ==
    /\ ticks < MaxTicks
    /\ Len(loads) <= MaxSlowLoads
    /\ now' = now + d
    /\ ticks' = ticks + 1
    /\ ret' = NoRet
    /\ UNCHANGED << tiles, textures, loads, loadStarts, tileLevel, store, saves,
                    dirtyTiles, faults, unsaved, canvasManager >>

(***************************************************************************)
(* The specification.                                                      *)
(***************************************************************************)
StoredBlob == Data("stored", << >>)

\* the level of the tiles in the store: saveDirtyTiles calls saveTile without
\* a level, and saveTile's level defaults to 0
StoredLevel == 0

InitialStore == [k \in { << "layer-1", 1, -2 >>, << "layer-1", 1, 1 >> } |-> StoredBlob]

StrokePoints == { << 128, 128 >> }

Init ==
    /\ tiles = << >>
    /\ textures = << >>
    /\ loads = << >>
    /\ loadStarts = << >>
    /\ tileLevel = << >>
    /\ store = InitialStore
    /\ saves = {}
    /\ dirtyTiles = {}
    /\ now = 0
    /\ ticks = 0
    /\ faults = 0
    /\ unsaved = {}
    /\ canvasManager = CanvasManager
    /\ ret = NoRet

Update == \E v \in Viewports, layers \in LayerLists : update(v, layers)

ForceLoadTile == \E a \in ForceArgs : forceLoadTile(a[1], a[2], a[3], a[4])

LoadStep ==
    \E t \in { loads[i] : i \in 1 .. Len(loads) } :
        \/ \E fault \in FaultKinds(KeyOf(t)) :
              LoadTileAnswered(t, fault) \/ ChildLoadTileAnswered(t, fault)
        \/ \E fault \in RejectKinds(KeyOf(t)) :
              ArrayBufferAnswered(t, fault) \/ ChildArrayBufferAnswered(t, fault)

SaveStep ==
    \E s \in saves :
        \/ \E fault \in { "none" } \cup (IF faults < MaxFaults THEN { "throw", "put" } ELSE {}) :
              MapAsyncAnswered(s, fault)
        \/ PutAnswered(s)

ReadArgs == { << "layer-1", 1, 1 >> }

ReadLists == { << Layer("layer-1", TRUE) >>, << Layer("layer-1", FALSE) >> }

Read ==
    \/ \E a \in ReadArgs : GetTile(a[1], a[2], a[3])
    \/ \E a \in ReadArgs : GetTileByKey(getTileKey(a[1], a[2], a[3], 0))
    \/ \E layers \in ReadLists : GetVisibleTiles(layers)

\* the tile cache: frames, forced loads, the store's answers, reads, the clock
Next ==
    \/ Update
    \/ LoadStep
    \/ ForceLoadTile
    \/ Read
    \/ \E d \in Deltas : Tick(d)

\* the paint path: strokes on loaded tiles, saves, eviction by later frames
NextPaint ==
    \/ Update
    \/ LoadStep
    \/ SaveStep
    \/ \E p \in StrokePoints : drawStroke(p)
    \/ saveDirtyTiles
    \/ \E d \in Deltas : Tick(d)

\* the (layerId, tx, ty, level) of the forced loads of zoomed-out tiles: a
\* level-1 tile at the position of a stored level-0 tile, and a level-2 tile
\* with that position among those of its children
LODArgs == { << "layer-1", 1, 1, 1 >>, << "layer-1", 0, 0, 2 >> }

ForceLoadLOD == \E a \in LODArgs : forceLoadTile(a[1], a[2], a[3], a[4])

\* the pyramid: frames at level 0, forced loads at levels 1 and 2, the
\* store's answers
NextLOD ==
    \/ Update
    \/ LoadStep
    \/ ForceLoadLOD

SpecLOD == Init /\ [][NextLOD]_vars

\* a viewport of no extent: width and height 0
DegenerateViewports == { Viewport(128, 128, 1, 1, 0, 0) }

UpdateDegenerate ==
    \E v \in DegenerateViewports, layers \in LayerLists : update(v, layers)

\* frames with a degenerate viewport, the store's answers, the clock
NextDegenerate ==
    \/ UpdateDegenerate
    \/ LoadStep
    \/ \E d \in Deltas : Tick(d)

SpecDegenerate == Init /\ [][NextDegenerate]_vars

\* the zooms zn / zd > 0 given to the level computation
Zooms == { Viewport(0, 0, zn, zd, 100, 100) : zn \in 1 .. MaxZoomTerm, zd \in 1 .. MaxZoomTerm }

\* a viewport is about to be set
InitLevel ==
    /\ tiles = << >>
    /\ textures = << >>
    /\ loads = << >>
    /\ loadStarts = << >>
    /\ tileLevel = << >>
    /\ store = InitialStore
    /\ saves = {}
    /\ dirtyTiles = {}
    /\ now = 0
    /\ ticks = 0
    /\ faults = 0
    /\ unsaved = {}
    /\ canvasManager = CanvasManager
    /\ \E v \in Zooms : ret = [op |-> "zoom", viewport |-> v]

\* the level update computes for the viewport and the level commitStroke
\* computes for it
ComputeLevel ==
    /\ ret.op = "zoom"
    /\ ret' = [op |-> "level", viewport |-> ret.viewport,
               update |-> LevelOf(ret.viewport),
               commitStroke |-> currentLevel(ret.viewport)]
    /\ UNCHANGED Reads

SpecLevel == InitLevel /\ [][ComputeLevel]_vars

\* the viewports given to the first update of a session: centres on both
\* sides of the origin and on a tile border, zooms 1, 1/2 and 2/5, two sizes
RectViewports ==
    { Viewport(x, y, z[1], z[2], e, e) :
        x \in { -300, -256, 0, 128 }, y \in { -300, 0 },
        z \in { << 1, 1 >>, << 1, 2 >>, << 2, 5 >> }, e \in { 100, 512 } }

\* a viewport is about to be given to update
InitRect ==
    /\ tiles = << >>
    /\ textures = << >>
    /\ loads = << >>
    /\ loadStarts = << >>
    /\ tileLevel = << >>
    /\ store = InitialStore
    /\ saves = {}
    /\ dirtyTiles = {}
    /\ now = 0
    /\ ticks = 0
    /\ faults = 0
    /\ unsaved = {}
    /\ canvasManager = CanvasManager
    /\ \E v \in RectViewports : ret = [op |-> "viewport", viewport |-> v]

UpdateRect ==
    /\ ret.op = "viewport"
    /\ \E layers \in LayerLists : update(ret.viewport, layers)

\* the first frame and the store's answers
NextRect ==
    \/ UpdateRect
    \/ LoadStep

SpecRect == InitRect /\ [][NextRect]_vars

\* integer world coordinates at, next to and between the tile borders of
\* level 0, on both sides of the origin
WorldXs == { k * TILE_SIZE + e : k \in -MaxTile .. MaxTile, e \in { -1, 0, 1, 100 } }

\* a world coordinate and a level are about to be mapped to a tile
InitTile ==
    /\ tiles = << >>
    /\ textures = << >>
    /\ loads = << >>
    /\ loadStarts = << >>
    /\ tileLevel = << >>
    /\ store = InitialStore
    /\ saves = {}
    /\ dirtyTiles = {}
    /\ now = 0
    /\ ticks = 0
    /\ faults = 0
    /\ unsaved = {}
    /\ canvasManager = CanvasManager
    /\ \E x \in WorldXs, level \in 0 .. MaxLevel :
          ret = [op |-> "world", x |-> x, level |-> level]

\* Math.floor(x / tileSizeWorld) for x, x + 1 and x + tileSizeWorld: the
\* index of the edge of a viewport of width 0 at zoom 1 centred at x
ComputeTileIndex ==
    /\ ret.op = "world"
    /\ LET S == TILE_SIZE * Pow2(ret.level)
           at(x) == TileIndex(x, 0, 1, Viewport(x, 0, 1, 1, 0, 0), S)
       IN  ret' = [op |-> "tileIndex", x |-> ret.x, level |-> ret.level,
                   here |-> at(ret.x), step |-> at(ret.x + 1), next |-> at(ret.x + S)]
    /\ UNCHANGED Reads

SpecTile == InitTile /\ [][ComputeTileIndex]_vars

(***************************************************************************)
(* PersistenceManager on its own: saveTile, loadTile, deleteTile called    *)
(* one after the other on the object store.                                *)
(***************************************************************************)
StoreKeys == { << "layer-1", 1, 1 >>, << "layer-1", 0, 0 >> }

Blobs == { StoredBlob, Painted }

\* PersistenceManager.saveTile(key, blob): store.put(blob, key); the promise
\* resolves on request.onsuccess and rejects on request.onerror
StoreSaveTile(key, blob, fault) ==
    /\ fault \in { "none" } \cup (IF faults < MaxFaults THEN { "request" } ELSE {})
    /\ Faulted(fault)
    /\ store' = IF fault = "none" THEN Put(store, key, blob) ELSE store
    /\ ret' = [op |-> "saveTile", key |-> key, value |-> (fault = "none")]
    /\ UNCHANGED << tiles, textures, loads, loadStarts, tileLevel, saves,
                    dirtyTiles, now, ticks, unsaved, canvasManager >>

\* PersistenceManager.deleteTile(key): store.delete(key)
StoreDeleteTile(key) ==
    /\ store' = Remove(store, {key})
    /\ ret' = [op |-> "deleteTile", key |-> key]
    /\ UNCHANGED << tiles, textures, loads, loadStarts, tileLevel, saves,
                    dirtyTiles, now, ticks, faults, unsaved, canvasManager >>

\* PersistenceManager.loadTile(key): what the promise settles to
StoreLoadTile(key, fault) ==
    /\ fault \in { "none" } \cup
                 (IF faults < MaxFaults THEN { "request", "throw" } ELSE {})
    /\ Faulted(fault)
    /\ ret' = [op |-> "loadTile", key |-> key, value |-> loadTile(StoreGet(key), fault)]
    /\ UNCHANGED << tiles, textures, loads, loadStarts, tileLevel, store, saves,
                    dirtyTiles, now, ticks, unsaved, canvasManager >>

NextStore ==
    \/ \E key \in StoreKeys, blob \in Blobs, fault \in { "none", "request" } :
          StoreSaveTile(key, blob, fault)
    \/ \E key \in StoreKeys : StoreDeleteTile(key)
    \/ \E key \in StoreKeys, fault \in { "none", "request", "throw" } :
          StoreLoadTile(key, fault)

SpecStore == Init /\ [][NextStore]_vars

\* the tiles (layerId, level, tx, ty) whose keys are built
TileTuples ==
    { [layerId |-> l, level |-> n, tx |-> tx, ty |-> ty] :
        l \in { "layer-0", "layer-1" }, n \in 0 .. 1, tx \in { -1, 1 }, ty \in { 0, 1 } }

\* two tiles are about to be given their keys
InitKey ==
    /\ tiles = << >>
    /\ textures = << >>
    /\ loads = << >>
    /\ loadStarts = << >>
    /\ tileLevel = << >>
    /\ store = InitialStore
    /\ saves = {}
    /\ dirtyTiles = {}
    /\ now = 0
    /\ ticks = 0
    /\ faults = 0
    /\ unsaved = {}
    /\ canvasManager = CanvasManager
    /\ \E a \in TileTuples, b \in TileTuples : ret = [op |-> "tuples", a |-> a, b |-> b]

\* getTileKey as TileManager calls it, and the key of the first tile parsed
\* as getVisibleTiles parses it
ComputeKeys ==
    /\ ret.op = "tuples"
    /\ ret' = [op |-> "keys", a |-> ret.a, b |-> ret.b,
               keyA |-> getTileKey(ret.a.layerId, ret.a.tx, ret.a.ty, ret.a.level),
               keyB |-> getTileKey(ret.b.layerId, ret.b.tx, ret.b.ty, ret.b.level),
               parsedA |-> ParseKey(getTileKey(ret.a.layerId, ret.a.tx, ret.a.ty,
                                               ret.a.level))]
    /\ UNCHANGED Reads

SpecKey == InitKey /\ [][ComputeKeys]_vars

\* the viewport of the session at zoom 1 and, zoomed out, at zoom 0.4
ZoomViewports == { Viewport(128, 128, 1, 1, 100, 100), Viewport(128, 128, 2, 5, 100, 100) }

UpdateZoom == \E v \in ZoomViewports, layers \in LayerLists : update(v, layers)

\* zooming: frames at zoom 1 and at zoom 0.4, the store's answers, the clock
NextZoom ==
    \/ UpdateZoom
    \/ LoadStep
    \/ \E d \in Deltas : Tick(d)

SpecZoom == Init /\ [][NextZoom]_vars

\* the viewports of the drawing sessions: a stroke over two level-0 tiles at
\* zoom 1, and the same at zoom 1/2 (level 1)
StrokeViewports == { Viewport(240, 128, 1, 1, 100, 100), Viewport(240, 128, 1, 2, 100, 100) }

\* a CanvasManager whose viewport has been set and whose layer list has been
\* reduced to the Drawing layer (deleteLayers(['layer-0', 'layer-2']))
InitStroke ==
    /\ tiles = << >>
    /\ textures = << >>
    /\ loads = << >>
    /\ loadStarts = << >>
    /\ tileLevel = << >>
    /\ store = InitialStore
    /\ saves = {}
    /\ dirtyTiles = {}
    /\ now = 0
    /\ ticks = 0
    /\ faults = 0
    /\ unsaved = {}
    /\ \E v \in StrokeViewports :
          canvasManager = [CanvasManager EXCEPT !.viewport = v,
                                                !.layers = << Layer("layer-1", TRUE) >>]
    /\ ret = NoRet

\* the render loop: tileManager.update(this.viewport, this.layers)
Frame == update(canvasManager.viewport, canvasManager.layers)

\* drawing: pointer events, frames, the store's answers; a commitStroke call
\* whose awaited promise has settled resumes before anything else runs
NextStroke ==
    \/ CommitResumed
    \/ ~Resumable /\ \E coords \in PointerCoords : PointerDown(coords)
    \/ ~Resumable /\ \E coords \in PointerCoords : PointerMove(coords)
    \/ ~Resumable /\ PointerUp
    \/ ~Resumable /\ LoadStep
    \/ ~Resumable /\ Frame

SpecStroke == InitStroke /\ [][NextStroke]_vars

\* the base layer, visible
PyramidLayers == << Layer("layer-0", TRUE) >>

\* a viewport over the level-0 tile (4, 5), whose load rectangle 3..5 x 4..6
\* holds the upper two children of the level-1 tile (2, 3), and the viewport
\* of the session after panning up by one tile (load rectangle 3..5 x 3..5)
PyramidViewports ==
    { Viewport(1152, 1408, 1, 1, 100, 100), Viewport(1152, 1152, 1, 1, 100, 100) }

\* the level-1 tile whose children (4, 6), (5, 6) are in that rectangle and
\* whose children (4, 7), (5, 7) are not
PyramidArgs == { << "layer-0", 2, 3, 1 >> }

UpdatePyramid == \E v \in PyramidViewports : update(v, PyramidLayers)

ForceLoadPyramid == \E a \in PyramidArgs : forceLoadTile(a[1], a[2], a[3], a[4])

\* a pyramid build next to resident children: frames, panning, the forced
\* load of the parent, the store's answers, the clock
NextPyramid ==
    \/ UpdatePyramid
    \/ LoadStep
    \/ ForceLoadPyramid
    \/ \E d \in Deltas : Tick(d)

SpecPyramid == Init /\ [][NextPyramid]_vars

\* every store request is eventually answered: a load that waits for the
\* store is resumed
FairLOD == Init /\ [][NextLOD]_vars /\ WF_vars(LoadStep)

\* the layer panel: layers added, deleted, selected and toggled, the clock
NextLayers ==
    \/ addLayer
    \/ \E layerIds \in SUBSET (LayerIds(canvasManager.layers) \cup { NoLayerId }) :
          layerIds # {} /\ deleteLayers(layerIds)
    \/ \E layerId \in LayerIds(canvasManager.layers) \cup { NoLayerId } :
          toggleLayer(layerId)
    \/ \E layerId \in LayerIds(canvasManager.layers) \cup { NoLayerId } :
          setActiveLayer(layerId)
    \/ \E d \in Deltas : Tick(d)

SpecLayers == Init /\ [][NextLayers]_vars

SpecPaint == Init /\ [][NextPaint]_vars

Spec == Init /\ [][Next]_vars

(***************************************************************************)
(* Properties.                                                             *)
(***************************************************************************)
\* the loads in flight for key
InFlight(L, key) == { i \in 1 .. Len(L) : KeyOf(L[i]) = key }

Terminal == { "ready", "error" }

\* C1: at most one load is in flight per tile key in every reachable state.
C1_OneLoadInFlight ==
    \A i, j \in 1 .. Len(loads) : KeyOf(loads[i]) = KeyOf(loads[j]) => i = j

\* C2: every record has a texture if and only if its status is Ready.
C2_TextureIffReady ==
    \A k \in DOMAIN tiles : (tiles[k].texture # Null) <=> (tiles[k].status = "ready")

\* C3: no step removes a record whose status is Loading: a Loading record
\* stays in the map until its load has completed.
C3_LoadingNeverEvicted ==
    [][\A k \in DOMAIN tiles : tiles[k].status = "loading" => k \in DOMAIN tiles']_vars

\* C4: once a record is Ready or Error, its status and texture are not
\* written again for as long as the record stays in the map.
C4_TerminalWrittenOnce ==
    [][\A k \in DOMAIN tiles \cap DOMAIN tiles' :
          tiles[k].status \in Terminal =>
              /\ tiles'[k].status = tiles[k].status
              /\ tiles'[k].texture = tiles[k].texture]_vars
\* C5: a painted key leaves the dirty set only after a store write of the
\* painted content has succeeded: every key painted and not written since is
\* in the dirty set.
C5_DirtyUntilWritten == unsaved \subseteq dirtyTiles

\* C6: the promise forceLoadTile returns resolves only when the record of its
\* key is Ready or Error.
C6_ForceLoadResolvesTerminal ==
    ret.op = "forceLoadTile" => ret.status \in Terminal

\* C7: getTile returns a texture exactly when the record of the key is
\* resident with status Ready, and then the texture of that record; for an
\* absent, Loading or Error record it returns null.
C7_GetTileOnlyReady ==
    ret.op = "getTile" =>
        /\ (ret.value # Null) <=> (StatusOf(tiles, ret.key) = "ready")
        /\ ret.value # Null => ret.value = tiles[ret.key].texture

\* getTile has been called on an Error record that holds a texture
C7_GetTileOnErrorWithTexture ==
    /\ ret.op = "getTile"
    /\ StatusOf(tiles, ret.key) = "error"
    /\ tiles[ret.key].texture # Null
    /\ ret.value = Null

\* C7 as stated, for both lookups (getTile and getTileByKey): what is
\* returned is absent unless the record is Ready.
C7_GetOnlyReady ==
    /\ ret.op = "getTile" =>
          (ret.value # Null => StatusOf(tiles, ret.key) = "ready")
    /\ ret.op = "getTileByKey" =>
          (ret.value # Undefined => StatusOf(tiles, ret.key) = "ready")

\* C8: a step of getTile, getTileByKey or getVisibleTiles leaves the tile map
\* and the loads unchanged, and every step that creates a record or starts a
\* load is a step of update or of forceLoadTile.
C8_ReadsStartNoLoad ==
    [][/\ ret'.op \in { "getTile", "getTileByKey", "getVisibleTiles" } =>
             /\ tiles' = tiles
             /\ loads' = loads
             /\ loadStarts' = loadStarts
       /\ (DOMAIN tiles' \ DOMAIN tiles # {} \/ loadStarts' # loadStarts) =>
             Update \/ ForceLoadTile]_vars

\* a read has returned while a record is Loading and its load is in flight
C8_ReadWhileLoading ==
    /\ ret.op \in { "getTile", "getVisibleTiles" }
    /\ \E k \in DOMAIN tiles : tiles[k].status = "loading" /\ InFlight(loads, k) # {}
    /\ ret.op = "getTile" => ret.key \notin DOMAIN tiles

\* C9: getVisibleTiles returns exactly the Ready records of the layers that
\* are visible in the list, each with the tx, ty and the level it was
\* requested at.
C9_ListVisibleExact ==
    ret.op = "getVisibleTiles" =>
        ret.value =
            { [key |-> k, texture |-> tiles[k].texture, tx |-> k[2], ty |-> k[3],
               layerId |-> k[1], level |-> tileLevel[k]] :
                k \in { x \in DOMAIN tiles :
                          /\ tiles[x].status = "ready"
                          /\ x[1] \in visibleLayerIds(ret.layers) } }

\* the keys update requests for the visible layers of the list
Required(viewport, layers) ==
    LET cells == RectSeq(LoadRect(viewport))
        level == LevelOf(viewport)
    IN  { getTileKey(layers[i].id, cells[c][1], cells[c][2], level) :
            i \in { j \in DOMAIN layers : layers[j].visible }, c \in DOMAIN cells }

\* C10: an update that finds a required key Loading, its one load not yet
\* resolved, starts no further load for it: the number of load starts of
\* the key is 1 after the call, and its one load is still the only one
\* (no update step ends otherwise).
C10_RepeatedUpdateOneLoad ==
    [][\A v \in Viewports, layers \in LayerLists :
          \A k \in Required(v, layers) :
              (/\ StatusOf(tiles, k) = "loading"
               /\ Count(loadStarts, k) = 1
               /\ \/ Count(loadStarts', k) # 1
                  \/ Cardinality(InFlight(loads', k)) # Cardinality(InFlight(loads, k)))
              => ~update(v, layers)]_vars

\* a later update has touched a record whose load, the only one started for
\* its key, is still in flight
C10_TouchedWhileLoading ==
    \E i \in 1 .. Len(loads) :
        /\ StatusOf(tiles, KeyOf(loads[i])) = "loading"
        /\ loadStarts[KeyOf(loads[i])] = 1
        /\ loads[i].at < tiles[KeyOf(loads[i])].lastUsedTimestamp

\* the keys update looks up: the load rectangle for every layer of the list
Touched(viewport, layers) ==
    LET cells == RectSeq(LoadRect(viewport))
        level == LevelOf(viewport)
    IN  { getTileKey(layers[i].id, cells[c][1], cells[c][2], level) :
            i \in DOMAIN layers, c \in DOMAIN cells }

\* the tile map is as an update(viewport, layers) run at some time t0 <= now
\* left it: the required keys are resident, the resident keys of the
\* rectangle were last used at t0 and no other record was expired at t0
AfterUpdate(viewport, layers) ==
    /\ Required(viewport, layers) \subseteq DOMAIN tiles
    /\ \E t0 \in { tiles[k].lastUsedTimestamp : k \in DOMAIN tiles } \cup { now } :
          /\ t0 <= now
          /\ \A k \in DOMAIN tiles :
                IF k \in Touched(viewport, layers)
                THEN tiles[k].lastUsedTimestamp = t0
                ELSE t0 - tiles[k].lastUsedTimestamp <= TIMEOUT

\* C11: a second update with the same viewport and layer list starts no
\* load, creates no record and evicts no record of the load rectangle of the
\* listed layers; the records it evicts are records outside of it that have
\* not been used for more than TIMEOUT (no update step ends otherwise).
C11_UpdateIdempotentInRect ==
    [][\A v \in Viewports, layers \in LayerLists :
          (/\ ret'.op = "update"
           /\ ~(/\ loadStarts' = loadStarts
                /\ loads' = loads
                /\ DOMAIN tiles' \subseteq DOMAIN tiles
                /\ \A k \in DOMAIN tiles \ DOMAIN tiles' :
                      /\ k \notin Touched(v, layers)
                      /\ now - tiles[k].lastUsedTimestamp > TIMEOUT)
           /\ AfterUpdate(v, layers))
          => ~update(v, layers)]_vars

\* an update at a later time has found every required key resident, its load
\* started by the first update still in flight, and has started nothing
C11_SecondUpdateNoChange ==
    /\ ret.op = "update"
    /\ \E v \in Viewports, layers \in LayerLists :
          /\ Required(v, layers) # {}
          /\ \A k \in Required(v, layers) :
                /\ k \in DOMAIN tiles
                /\ tiles[k].lastUsedTimestamp = now
                /\ loadStarts[k] = 1
    /\ \E i \in 1 .. Len(loads) : ~loads[i].forced /\ loads[i].at < now

\* C11 as stated: a second update with the same viewport and layer list
\* leaves the set of resident keys as it is and starts no load (no update
\* step ends otherwise).
C11_UpdateIdempotent ==
    [][\A v \in Viewports, layers \in LayerLists :
          (/\ ret'.op = "update"
           /\ (DOMAIN tiles' # DOMAIN tiles \/ loadStarts' # loadStarts)
           /\ AfterUpdate(v, layers))
          => ~update(v, layers)]_vars

\* C12: records leave the tile map only in an update step, and an update run
\* at time now keeps every record it does not touch that was last used at
\* now - (TIMEOUT - 1) or later and removes every record it does not touch
\* that was last used at now - (TIMEOUT + 1) or earlier.
C12_EvictionBoundary ==
    [][/\ ~(DOMAIN tiles \subseteq DOMAIN tiles') =>
             \E v \in Viewports, layers \in LayerLists : update(v, layers)
       /\ \A v \in Viewports, layers \in LayerLists :
             (/\ ret'.op = "update"
              /\ \E k \in DOMAIN tiles \ Touched(v, layers) :
                    \/ /\ now - tiles[k].lastUsedTimestamp <= TIMEOUT - 1
                       /\ k \notin DOMAIN tiles'
                    \/ /\ now - tiles[k].lastUsedTimestamp >= TIMEOUT + 1
                       /\ k \in DOMAIN tiles')
             => ~update(v, layers)]_vars

\* an update run TIMEOUT + 1 after the only time records were used has
\* removed a record that had been created
C12_EvictedAtTimeoutPlusOne ==
    /\ ret.op = "update"
    /\ now = TIMEOUT + 1
    /\ \E k \in DOMAIN loadStarts : k \notin DOMAIN tiles
    /\ \A k \in DOMAIN tiles : tiles[k].lastUsedTimestamp = now

\* C13: an update gives every resident record of a hidden layer inside the
\* load rectangle lastUsed = now and keeps it as it is otherwise, and for a
\* key of a hidden layer that is not resident it creates no record and starts
\* no load.
C13_HiddenLayerTouchedOnly ==
    [][\A v \in Viewports, layers \in LayerLists :
          (/\ ret'.op = "update"
           /\ \E i \in DOMAIN layers :
                 /\ ~layers[i].visible
                 /\ \E k \in Touched(v, << layers[i] >>) :
                       ~(/\ Count(loadStarts', k) = Count(loadStarts, k)
                         /\ InFlight(loads', k) = InFlight(loads, k)
                         /\ IF k \in DOMAIN tiles
                            THEN /\ k \in DOMAIN tiles'
                                 /\ tiles'[k] =
                                      [tiles[k] EXCEPT !.lastUsedTimestamp = now]
                            ELSE k \notin DOMAIN tiles'))
          => ~update(v, layers)]_vars

\* an update with the layer hidden has touched the record of a forced tile
\* whose load is still in flight, and no other load was ever started
C13_HiddenLayerRecordTouched ==
    /\ ret.op = "update"
    /\ \E i \in 1 .. Len(loads) :
          /\ loads[i].forced
          /\ KeyOf(loads[i]) \in DOMAIN tiles
          /\ loads[i].at < tiles[KeyOf(loads[i])].lastUsedTimestamp
          /\ tiles[KeyOf(loads[i])].lastUsedTimestamp = now
          /\ DOMAIN loadStarts = { KeyOf(loads[i]) }

Ends(t) ==
    /\ \E i \in 1 .. Len(loads) : loads[i] = t
    /\ \A j \in 1 .. Len(loads') : KeyOf(loads'[j]) # KeyOf(t) \/ loads'[j].gen # t.gen

\* the store holds a blob for the tile at (layerId, tx, ty) of the given level
StoredAt(key, level) == StoreGet(key) # NoBlob /\ StoredLevel = level

\* a record of the tile at (layerId, tx, ty) of the given level is resident
ResidentAt(key, level) == key \in DOMAIN tiles /\ tileLevel[key] = level

C18_ErrorRetriedAfterEviction ==
    [][/\ \A k \in DOMAIN loadStarts' :
             Count(loadStarts', k) > Count(loadStarts, k) =>
                /\ k \notin DOMAIN tiles
                /\ k \in DOMAIN tiles'
                /\ tiles'[k] = TileState(Null, "loading", now)
                /\ Count(loadStarts', k) = Count(loadStarts, k) + 1
                /\ Cardinality(InFlight(loads', k)) = Cardinality(InFlight(loads, k)) + 1
       /\ \A k \in DOMAIN tiles :
             (tiles[k].status = "error" /\ k \notin DOMAIN tiles') => ret'.op = "update"
       /\ \A v \in Viewports, layers \in LayerLists :
             (/\ ret'.op = "update"
              /\ \/ \E k \in DOMAIN tiles :
                       /\ tiles[k].status = "error"
                       /\ ~(IF k \in Touched(v, layers)
                            THEN /\ k \in DOMAIN tiles'
                                 /\ tiles'[k].status = "error"
                                 /\ Count(loadStarts', k) = Count(loadStarts, k)
                            ELSE (k \in DOMAIN tiles') =
                                    ~(now - tiles[k].lastUsedTimestamp > TIMEOUT))
                 \/ \E k \in Required(v, layers) \ DOMAIN tiles :
                       ~(/\ k \in DOMAIN tiles'
                         /\ tiles'[k].status = "loading"
                         /\ Count(loadStarts', k) = Count(loadStarts, k) + 1))
             => ~update(v, layers)]_vars

\* an update at a later time has looked up a record in Error and has left it
\* in Error, with the one load of its key ended and none started
C18_ErrorTouchedNotReloaded ==
    /\ ret.op = "update"
    /\ now > 0
    /\ \E k \in DOMAIN tiles :
          /\ tiles[k].status = "error"
          /\ tiles[k].lastUsedTimestamp = now
          /\ loadStarts[k] = 1
          /\ InFlight(loads, k) = {}

\* C19: a load that ends while its key is absent from the tile map leaves the
\* tile map as it is: the key stays absent and no record changes.
C19_LateCompletionDiscarded ==
    [][\A i \in 1 .. Len(loads) :
          (Ends(loads[i]) /\ KeyOf(loads[i]) \notin DOMAIN tiles) => tiles' = tiles]_vars

\* the one load ever started for a key has ended without a fault after its
\* record was evicted: the texture it filled is there, the key is absent
C19_CompletedForEvictedKey ==
    /\ faults = 0
    /\ \E k \in DOMAIN loadStarts :
          /\ loadStarts[k] = 1
          /\ k \notin DOMAIN tiles
          /\ InFlight(loads, k) = {}
          /\ << k, 1, 4 >> \in DOMAIN textures

\* C20: every texture that has not been destroyed is held by a resident
\* record or belongs to a load that is still running (only the scan of
\* update destroys textures, and only those held by the records it removes).
C20_NoTextureLeft ==
    \A x \in DOMAIN textures :
        \/ \E k \in DOMAIN tiles : tiles[k].texture = x
        \/ \E i \in 1 .. Len(loads) : KeyOf(loads[i]) = x[1] /\ loads[i].gen = x[2]

\* C21: forceLoadTile called at time now leaves the key resident with a
\* record that the scan of update removes at no time up to now + TIMEOUT,
\* whether the key was absent or resident at the call.
C21_ForcedKeyKeptForTimeout ==
    [][\A a \in ForceArgs :
          forceLoadTile(a[1], a[2], a[3], a[4]) =>
             LET key == getTileKey(a[1], a[2], a[3], a[4]) IN
             /\ key \in DOMAIN tiles'
             /\ ~Expired(tiles'[key], now + TIMEOUT)]_vars

\* C22: the step in which a saveTile call fails (mapAsync rejects, or the
\* store write fails) changes no record and no texture: a record that was
\* Ready is Ready with the same texture and pixels, and getTile and
\* getVisibleTiles return what they returned before.
C22_FailedSaveKeepsTile ==
    [][\A s \in saves :
          (\/ s \notin saves' /\ faults' # faults
           \/ /\ s.pc = "put" /\ ~s.ok
              /\ ret' = [op |-> "saveTile", key |-> s.key, value |-> FALSE])
          => /\ tiles' = tiles
             /\ textures' = textures
             /\ getTile(s.key[1], s.key[2], s.key[3])' =
                   getTile(s.key[1], s.key[2], s.key[3])
             /\ \A layers \in LayerLists :
                   getVisibleTiles(layers)' = getVisibleTiles(layers)]_vars

\* the write of a painted tile has failed; its record is Ready with the
\* painted texture, getTile returns it, and the tile is still unsaved
C22_SaveFailedTileReady ==
    /\ ret.op = "saveTile"
    /\ ~ret.value
    /\ ret.key \in unsaved
    /\ getTile(ret.key[1], ret.key[2], ret.key[3]) # Null
    /\ textures[getTile(ret.key[1], ret.key[2], ret.key[3])] = Painted

\* C23: an update called with a degenerate viewport creates no record, starts
\* no load and leaves the tile map as it is.
C23_DegenerateViewportRejected ==
    [][\A v \in DegenerateViewports, layers \in LayerLists :
          update(v, layers) =>
             /\ tiles' = tiles
             /\ loads' = loads
             /\ loadStarts' = loadStarts]_vars

\* C24: for a zoom zn / zd > 0 the level of update is not negative, is 0 when
\* the zoom is above 1/2, is k exactly when 2^-(k+1) < zoom <= 2^-k, and is the
\* level commitStroke computes.
C24_LevelOfZoom ==
    ret.op = "level" =>
        LET zn == ret.viewport.zn
            zd == ret.viewport.zd
        IN  /\ ret.update >= 0
            /\ 2 * zn > zd => ret.update = 0
            /\ \A k \in 0 .. MaxZoomTerm :
                  (zn * Pow2(k) <= zd /\ zd < zn * Pow2(k + 1)) <=> 
                      (ret.update = k /\ zn <= zd)
            /\ ret.commitStroke = ret.update

\* zoom exactly 1/2 has been given level 1
C24_ZoomHalfLevelOne ==
    /\ ret.op = "level"
    /\ ret.viewport.zn = 1
    /\ ret.viewport.zd = 2
    /\ ret.update = 1
    /\ ret.commitStroke = 1

\* the tile t with t * S <= n / d < (t + 1) * S, for d > 0
TileOf(n, d, S) ==
    CHOOSE t \in -MaxTile .. MaxTile : t * S * d <= n /\ n < (t + 1) * S * d

\* the tiles the corners x -/+ width / (2 zoom), y -/+ height / (2 zoom) of the
\* visible world rectangle lie in, for tiles of TILE_SIZE * 2^level
VisibleRect(v) ==
    LET S == TILE_SIZE * Pow2(LevelOf(v)) IN
    [minTx |-> TileOf(2 * v.zn * v.x - v.width * v.zd, 2 * v.zn, S),
     maxTx |-> TileOf(2 * v.zn * v.x + v.width * v.zd, 2 * v.zn, S),
     minTy |-> TileOf(2 * v.zn * v.y - v.height * v.zd, 2 * v.zn, S),
     maxTy |-> TileOf(2 * v.zn * v.y + v.height * v.zd, 2 * v.zn, S)]

\* C25: the first update of a session creates a record and starts a load,
\* at the level of the zoom, for exactly the keys of the visible layers whose
\* tx, ty lie in the rectangle of the tiles holding the corners of the
\* visible world rectangle, widened by one tile on each side.
C25_LoadRectangle ==
    [][\A layers \in LayerLists :
          (ret.op = "viewport" /\ update(ret.viewport, layers)) =>
             LET r == VisibleRect(ret.viewport)
                 keys == { << layers[i].id, tx, ty >> :
                             i \in { j \in DOMAIN layers : layers[j].visible },
                             tx \in r.minTx - 1 .. r.maxTx + 1,
                             ty \in r.minTy - 1 .. r.maxTy + 1 }
             IN  /\ DOMAIN tiles' = keys
                 /\ DOMAIN loadStarts' = keys
                 /\ \A k \in keys : tileLevel'[k] = LevelOf(ret.viewport)
                 /\ { KeyOf(loads'[i]) : i \in 1 .. Len(loads') } = keys]_vars

\* zoom 1, centre (0, 0), 512 x 512: update has requested the 25 level-0 keys
\* of layer-1 with tx, ty in -2 .. 2
C25_FiveByFive ==
    /\ ret.op = "update"
    /\ DOMAIN tiles = { << "layer-1", tx, ty >> : tx \in -2 .. 2, ty \in -2 .. 2 }
    /\ Len(loads) = 25
    /\ \A k \in DOMAIN tiles : tileLevel[k] = 0 /\ tiles[k].status = "loading"

\* C26: with S = TILE_SIZE * 2^level, the tile index of x + S is the tile index
\* of x plus 1, the tile index of x + 1 is not below that of x, and the tile
\* of index t holds the coordinates t * S .. (t + 1) * S - 1, for negative x as
\* for positive.
C26_TileIndexAdvances ==
    ret.op = "tileIndex" =>
        LET S == TILE_SIZE * Pow2(ret.level) IN
        /\ ret.next = ret.here + 1
        /\ ret.step >= ret.here
        /\ ret.here * S <= ret.x
        /\ ret.x < (ret.here + 1) * S

\* a negative coordinate at level 1: x = -1 lies in tile -1, x + 512 in tile 0
C26_NegativeCoordinate ==
    /\ ret.op = "tileIndex"
    /\ ret.x = -1
    /\ ret.level = 1
    /\ ret.here = -1
    /\ ret.next = 0

\* C27: a loadTile that returns gives the blob last saved under the key and
\* not deleted since, absent when there is none; a saveTile or deleteTile
\* changes the blob of no other key, a saveTile that succeeds leaves its blob
\* under its key, and nothing else changes the store.
C27_StoreRoundTrip ==
    [][/\ (ret'.op = "loadTile" /\ ret'.value # Throw) =>
             /\ ret'.value = StoreGet(ret'.key)
             /\ store' = store
       /\ ret'.op \in { "saveTile", "deleteTile" } =>
             \A k \in (DOMAIN store \cup DOMAIN store') \ { ret'.key } :
                 /\ k \in DOMAIN store /\ k \in DOMAIN store'
                 /\ store'[k] = store[k]
       /\ (ret'.op = "saveTile" /\ ret'.value) => ret'.key \in DOMAIN store'
       /\ ret'.op = "deleteTile" => ret'.key \notin DOMAIN store'
       /\ store' # store => ret'.op \in { "saveTile", "deleteTile" }]_vars

\* C28: two tiles that differ in layer, level, tx or ty have different keys,
\* and the key of a tile parses back to its layer, level, tx and ty.
C28_KeysUniquePerTuple ==
    ret.op = "keys" =>
        /\ ret.a # ret.b => ret.keyA # ret.keyB
        /\ ret.parsedA = ret.a

\* C29: an update at zoom 0.4 leaves a record at level 1 for every key it
\* requires and leaves the lastUsed of every resident level-0 record as it
\* was; a level-0 record last used more than TIMEOUT ago is removed by it.
C29_ZoomOutWorksAtLevelOne ==
    [][\A v \in ZoomViewports, layers \in LayerLists :
          (LevelOf(v) = 1 /\ update(v, layers)) =>
             /\ \A k \in Required(v, layers) :
                   k \in DOMAIN tiles' /\ tileLevel'[k] = 1
             /\ \A k \in DOMAIN tiles :
                   tileLevel[k] = 0 =>
                      IF now - tiles[k].lastUsedTimestamp > TIMEOUT
                      THEN k \notin DOMAIN tiles'
                      ELSE /\ k \in DOMAIN tiles'
                           /\ tiles'[k].lastUsedTimestamp =
                                 tiles[k].lastUsedTimestamp]_vars

\* child c of the tile of load t, as a tile of its own
ChildTile(t, c) ==
    [t EXCEPT !.tx = t.tx * 2 + (c % 2), !.ty = t.ty * 2 + (c \div 2),
              !.level = t.level - 1]

\* C30: when the pyramid builder ends, with no storage request failed, for a
\* tile of level L >= 2, a quadrant whose child of level L - 1 is neither
\* resident nor stored holds that child built from its own children: a child
\* of the child that is stored at level L - 2 is in its quadrant of the
\* quadrant.
C30_PyramidRecursive ==
    [][\A i \in 1 .. Len(loads) :
          LET t == loads[i]
              key == KeyOf(t)
          IN  (/\ Ends(t)
               /\ faults' = 0
               /\ t.level >= 2
               /\ t.pc \in { "childLoadTile", "childArrayBuffer" }
               /\ key \in DOMAIN tiles'
               /\ tiles'[key].status = "ready"
               /\ tiles'[key].texture = TexId(t, 4))
              => \A c \in 0 .. 3, g \in 0 .. 3 :
                    (/\ ~ResidentAt(ChildKey(t, c), t.level - 1)
                     /\ ~StoredAt(ChildKey(t, c), t.level - 1)
                     /\ StoredAt(ChildKey(ChildTile(t, c), g), t.level - 2))
                    => LET content == textures'[TexId(t, 4)] IN
                       /\ content.kind = "lod"
                       /\ content.quads[c + 1].kind = "lod"
                       /\ content.quads[c + 1].quads[g + 1] =
                             StoreGet(ChildKey(ChildTile(t, c), g))]_vars

\* C31: a tile painted and not yet written to the store is never evicted: no
\* step removes the record of a key that has been painted and whose painted
\* content no store write has carried since.
C31_UnsavedNeverEvicted ==
    [][\A k \in unsaved : k \in DOMAIN tiles => k \in DOMAIN tiles']_vars

\* C32: commitStroke persists what it paints: when a commitStroke call has
\* completed without error, the store holds painted content under the key of
\* every tile of the stroke, at the level the stroke was drawn at.
C32_CommitPersistsStroke ==
    (ret.op = "commitStroke" /\ ret.pc = "done") =>
        \A i \in DOMAIN ret.cells :
            StoreGet(getTileKey(ret.layerId, ret.cells[i][1], ret.cells[i][2],
                                ret.level)).kind = "painted"

\* C33: the points of a stroke are all still in the stroke buffer when the
\* stroke's own commitStroke call starts, whatever commitStroke call of an
\* earlier stroke was suspended meanwhile.
C33_StrokePointsKept ==
    (ret.op = "commitStroke" /\ ret.from = "pointerup") => ret.points = ret.drawn

\* C34: the pyramid builder never uses a child's texture after eviction has
\* destroyed it: every texture a suspended generateLODTile has taken for a
\* quadrant is still alive.
C34_ChildBufferAlive ==
    \A i \in 1 .. Len(loads) : \A q \in DOMAIN loads[i].quads :
        loads[i].quads[q] # Null => loads[i].quads[q] \in DOMAIN textures

\* C36: immediately after update(now) has returned, every resident record
\* satisfies now - lastUsedTimestamp <= 2000: it was created or touched within
\* the last timeout before this update.
C36_ResidentWithinTimeout ==
    ret.op = "update" =>
        \A k \in DOMAIN tiles : now - tiles[k].lastUsedTimestamp <= TIMEOUT

\* update has returned and has kept a record last used one millisecond less
\* than the timeout ago
C36_OldRecordKept ==
    /\ ret.op = "update"
    /\ \E k \in DOMAIN tiles : now - tiles[k].lastUsedTimestamp = TIMEOUT - 1

\* pixels that are all zero: a cleared texture, a quadrant nothing was drawn
\* into, a composite of such
RECURSIVE Transparent(_)
Transparent(d) ==
    \/ d.kind \in { "blank", "empty" }
    \/ d.kind = "lod" /\ \A i \in 1 .. 4 : Transparent(d.quads[i])

SamePixels(a, b) == a = b \/ (Transparent(a) /\ Transparent(b))

\* what loadTileData yields for the tile t = (layerId, tx, ty, level) from
\* the key and the store alone, no child being resident
FromStore(t) ==
    LET quad(i) == IF ChildKey(t, i) \in DOMAIN store THEN store[ChildKey(t, i)]
                   ELSE Empty
    IN  IF KeyOf(t) \in DOMAIN store THEN store[KeyOf(t)]
        ELSE IF t.level > 0
        THEN IF \A i \in 0 .. 3 : quad(i) = Empty THEN clearTexture
             ELSE Data("lod", [i \in 1 .. 4 |-> quad(i - 1)])
        ELSE IF t.layerId = "layer-0" THEN writeDebugPattern(t.tx, t.ty, 0)
        ELSE clearTexture

\* C35: the content a load produces for a key depends only on the key and the
\* store: every Ready record requested at a level above 0 holds the pixels a
\* load yields from the store alone, whether or not children were resident
\* when it was built.
C35_ContentFromStoreOnly ==
    \A k \in DOMAIN tiles :
        (tiles[k].status = "ready" /\ tiles[k].texture # Null /\ tileLevel[k] > 0) =>
            SamePixels(textures[tiles[k].texture],
                       FromStore([layerId |-> k[1], tx |-> k[2], ty |-> k[3],
                                  level |-> tileLevel[k]]))

C38_LoadPathWritesNoStore ==
    [][(tiles' # tiles \/ loads' # loads \/ textures' # textures) =>
          store' = store]_vars

\* a tile of a level above 0 has been synthesised a second time, after an
\* eviction, and its key is still not in the store
C38_SynthesisedAgain ==
    \E k \in DOMAIN tiles :
        /\ tiles[k].status = "ready"
        /\ tileLevel[k] > 0
        /\ Count(loadStarts, k) >= 2
        /\ k \notin DOMAIN store

\* the keys of the records of the pyramid sessions
PyramidKeys == { << "layer-1", tx, ty >> : tx \in -1 .. 1, ty \in -1 .. 1 }

\* C39: when every store request is eventually answered, every record that is
\* Loading eventually is Ready or Error or has been removed.
C39_LoadingEnds ==
    \A k \in PyramidKeys :
        (StatusOf(tiles, k) = "loading") ~> (StatusOf(tiles, k) # "loading")

\* a pyramid build passes a child whose record is Loading (the load of another
\* key) and reads the child from the store instead of waiting
C39_BuildPassesLoadingChild ==
    \E i \in 1 .. Len(loads) :
        /\ loads[i].pc = "childLoadTile"
        /\ ChildKey(loads[i], loads[i].child) # KeyOf(loads[i])
        /\ StatusOf(tiles, ChildKey(loads[i], loads[i].child)) = "loading"

\* C40: after any sequence of addLayer, deleteLayers, setActiveLayer and
\* toggleLayer from the three default layers, the layer list is not empty,
\* its ids are pairwise distinct and activeLayerId is the id of a layer in it.
C40_LayersWellFormed ==
    LET L == canvasManager.layers IN
    /\ L # << >>
    /\ \A i, j \in DOMAIN L : L[i].id = L[j].id => i = j
    /\ canvasManager.activeLayerId \in LayerIds(L)

====
